---- MODULE Spec2Model ----
(***************************************************************************)
(* sphinx_openapi: download OpenAPI YAML schemas, optionally inject a logo *)
(* into each, and combine them into one unified spec.                      *)
(*                                                                         *)
(* A Python dict is an ordered mapping: it is modelled as a sequence of    *)
(* entries [k |-> key, v |-> value] with pairwise distinct keys, in        *)
(* insertion order.  Keys are strings, and the renaming f"{path}-{n}" is   *)
(* string concatenation.  An optional key of a document is a record        *)
(* [kind, m]: kind "absent" (no such key), "null" (key present, value not  *)
(* a mapping) or "map" (m is the mapping).                                 *)
(*                                                                         *)
(* merge_openapi_specs stores the first dict it sees for a component       *)
(* category by reference.  The merged category is therefore modelled as a  *)
(* reference (the index of the input spec that owns the dict), and writes  *)
(* to the merged category land in that input spec.                         *)
(***************************************************************************)
EXTENDS Integers, Sequences, FiniteSets, TLC

VARIABLES
    schema_info_list,               \* self.schema_info_list: <<[url, dest]>>
    openapi_use_xbe_workarounds,    \* self.openapi_use_xbe_workarounds
    openapi_stop_build_on_error,    \* self.openapi_stop_build_on_error
    combined_schema_file_path,      \* self.combined_schema_file_path (NoPath if unset)
    fs,                             \* the destination files: dest -> file
    combined_file,                  \* the file at combined_schema_file_path
    run_pc,                         \* position of setup_openapi
    idx,                            \* index of the schema of the current loop iteration
    fetch_status,                   \* per schema: outcome of download_file in this run
    patched,                        \* per schema: _apply_xbe_workarounds was called
    specs,                          \* argument of merge_openapi_specs (live objects)
    specs0,                         \* the argument's content when the call started
    merged_spec,                    \* local merged_spec
    merged_components,              \* local merged_components: category -> reference
    pos,                            \* position of merge_openapi_specs
    merge_error                     \* exception raised by merge_openapi_specs

vars == <<schema_info_list, openapi_use_xbe_workarounds, openapi_stop_build_on_error,
          combined_schema_file_path, fs, combined_file, run_pc, idx, fetch_status,
          patched, specs, specs0, merged_spec, merged_components, pos, merge_error>>

runVars == <<schema_info_list, openapi_use_xbe_workarounds, openapi_stop_build_on_error,
             combined_schema_file_path, fs, combined_file, run_pc, idx, fetch_status,
             patched>>

configVars == <<schema_info_list, openapi_use_xbe_workarounds,
                openapi_stop_build_on_error, combined_schema_file_path>>

(***************************************************************************)
(* Bounds of the model.                                                    *)
(***************************************************************************)
MaxSpecs == 3       \* longest list handed to merge_openapi_specs directly
MaxSources == 2     \* longest schema_info_list of a run

(***************************************************************************)
(* Ordered mappings.                                                       *)
(***************************************************************************)
Absent == "<absent>"

Keys(d) == {d[n].k : n \in DOMAIN d}

Has(d, key) == \E n \in DOMAIN d : d[n].k = key

Lookup(d, key) == d[CHOOSE n \in DOMAIN d : d[n].k = key].v

\* d[key] = val: replaces the value in place, or appends a new entry
Store(d, key, val) ==
    IF Has(d, key)
    THEN [n \in DOMAIN d |-> IF d[n].k = key THEN [k |-> key, v |-> val] ELSE d[n]]
    ELSE Append(d, [k |-> key, v |-> val])

AbsentKey == [kind |-> "absent", m |-> <<>>]
NullValue == [kind |-> "null", m |-> <<>>]
Mapping(m) == [kind |-> "map", m |-> m]

\* info: a mapping with a title and possibly an x-logo, or null, or no key
NoInfo == [kind |-> "absent", title |-> Absent, x_logo |-> Absent]
NullInfo == [kind |-> "null", title |-> Absent, x_logo |-> Absent]
EmptyInfo == [kind |-> "map", title |-> Absent, x_logo |-> Absent]
Info(title) == [kind |-> "map", title |-> title, x_logo |-> Absent]

\* a document whose root is not a mapping (yaml.safe_load of an empty file)
NullDoc ==
    [root |-> "null", openapi |-> Absent, info |-> NoInfo,
     paths |-> AbsentKey, components |-> AbsentKey]

\* the value stored under `key` in document number n
Item(n, key) == [src |-> n, key |-> key]

Entries(n, keys) == [x \in DOMAIN keys |-> [k |-> keys[x], v |-> Item(n, keys[x])]]

Categories(n, cats) ==
    [x \in DOMAIN cats |-> [k |-> cats[x].k, v |-> Entries(n, cats[x].v)]]

\* document number n of the given shape
MakeSpec(shape, n) ==
    [root |-> "map",
     openapi |-> shape.openapi,
     info |-> shape.info,
     paths |-> IF shape.paths.kind = "map"
               THEN Mapping(Entries(n, shape.paths.m)) ELSE shape.paths,
     components |-> IF shape.components.kind = "map"
                    THEN Mapping(Categories(n, shape.components.m))
                    ELSE shape.components]

Shape(openapi, info, paths, components) ==
    [openapi |-> openapi, info |-> info, paths |-> paths, components |-> components]

Cat(name, items) == [k |-> name, v |-> items]

BaseShape ==
    Shape("3.0.0", Info("A"), Mapping(<<"/a">>), Mapping(<<Cat("schemas", <<"Foo">>)>>))

\* the documents merge_openapi_specs is called with: BaseShape, and BaseShape
\* with one of its sections changed
SpecPool ==
    {BaseShape}
    \cup {[BaseShape EXCEPT !.paths = p] :
            p \in {AbsentKey, NullValue, Mapping(<<>>), Mapping(<<"/a", "/a-1">>),
                   Mapping(<<"/a-1", "/a">>)}}
    \cup {[BaseShape EXCEPT !.components = c] :
            c \in {AbsentKey, NullValue, Mapping(<<>>),
                   Mapping(<<Cat("schemas", <<"Foo-1", "Foo">>)>>),
                   Mapping(<<Cat("responses", <<"Foo">>), Cat("schemas", <<"Foo">>)>>)}}
    \cup {[BaseShape EXCEPT !.openapi = Absent, !.info = NoInfo],
          [BaseShape EXCEPT !.openapi = "3.1.0", !.info = Info("B")]}

(***************************************************************************)
(* merge_openapi_specs                                                     *)
(***************************************************************************)
\* f"{path}-{counter}"
Suffixed(name, counter) == name \o "-" \o ToString(counter)

RECURSIVE WhileUniquePath(_, _, _, _)
\* while unique_path in merged_spec["paths"]: ...
WhileUniquePath(used, path, unique_path, counter) ==
    IF Has(used, unique_path)
    THEN WhileUniquePath(used, path, Suffixed(path, counter), counter + 1)
    ELSE unique_path

\* a plausible slip: the counter starts at 2
UniquePathFromTwo(used, path) == WhileUniquePath(used, path, path, 2)

\* the key a path item is stored under
UniquePath(used, path) == WhileUniquePath(used, path, path, 1)

RECURSIVE WhileUniqueItemKey(_, _, _, _)
\* while unique_item_key in merged_components[comp_key]: ...
WhileUniqueItemKey(used, item_key, unique_item_key, counter) ==
    IF Has(used, unique_item_key)
    THEN WhileUniqueItemKey(used, item_key, Suffixed(item_key, counter + 1), counter + 1)
    ELSE unique_item_key

\* a plausible slip: the first candidate is tried without a test
UniqueItemKeyUntested(used, item_key) ==
    IF Has(used, item_key) THEN Suffixed(item_key, 1) ELSE item_key

\* a plausible slip: the counter starts at 2
UniqueItemKeyFromTwo(used, item_key) ==
    IF Has(used, item_key)
    THEN WhileUniqueItemKey(used, item_key, Suffixed(item_key, 2), 2)
    ELSE item_key

\* the name a component is stored under in a category seen before
UniqueItemKey(used, item_key) ==
    IF Has(used, item_key)
    THEN WhileUniqueItemKey(used, item_key, Suffixed(item_key, 1), 1)
    ELSE item_key

\* a plausible slip: the metadata of the last spec
InitialMergedSpecOfLast(sp) ==
    [openapi |-> IF sp[Len(sp)].openapi = Absent THEN "3.0.0" ELSE sp[Len(sp)].openapi,
     info |-> IF sp[Len(sp)].info.kind = "absent" THEN EmptyInfo ELSE sp[Len(sp)].info,
     paths |-> <<>>,
     components |-> AbsentKey]

\* merged_spec = {"openapi": specs[0].get(..), "info": specs[0].get(..), "paths": {}}
InitialMergedSpec(sp) ==
    [openapi |-> IF sp[1].openapi = Absent THEN "3.0.0" ELSE sp[1].openapi,
     info |-> IF sp[1].info.kind = "absent" THEN EmptyInfo ELSE sp[1].info,
     paths |-> <<>>,
     components |-> AbsentKey]

NoMergedSpec ==
    [openapi |-> Absent, info |-> NoInfo, paths |-> <<>>, components |-> AbsentKey]

Idle == [phase |-> "idle", i |-> 0, j |-> 0, k |-> 0]

At(phase, i, j, k) == [phase |-> phase, i |-> i, j |-> j, k |-> k]

\* the dict object a reference of merged_components points to
Deref(sp, comp_key, ref) == Lookup(sp[ref].components.m, comp_key)

\* merged_components as a plain value: category -> mapping
Resolved(sp, mc) ==
    [x \in DOMAIN mc |-> [k |-> mc[x].k, v |-> Deref(sp, mc[x].k, mc[x].v)]]

\* merged_components[comp_key][item_key] = item_val, through the reference
StoreThrough(sp, ref, comp_key, item_key, item_val) ==
    [sp EXCEPT ![ref].components.m =
        Store(@, comp_key, Store(Lookup(@, comp_key), item_key, item_val))]

Raise(error) ==
    /\ merge_error' = error
    /\ pos' = [pos EXCEPT !.phase = "raised"]

\* if not specs: raise ValueError; else the two locals are set up
MergeBegin ==
    /\ pos.phase = "call"
    /\ IF specs = <<>>
       THEN /\ Raise("ValueError")
            /\ UNCHANGED <<merged_spec, merged_components>>
       ELSE IF specs[1].root # "map"
       THEN /\ Raise("AttributeError")
            /\ UNCHANGED <<merged_spec, merged_components>>
       ELSE /\ merged_spec' = InitialMergedSpec(specs)
            /\ merged_components' = <<>>
            /\ pos' = At("specs", 0, 0, 0)
            /\ UNCHANGED merge_error
    /\ UNCHANGED <<specs, specs0, runVars>>

\* for spec in specs: the next spec, or the end of the loop
MergeNextSpec ==
    /\ pos.phase = "specs"
    /\ pos' = IF pos.i < Len(specs)
              THEN At("paths", pos.i + 1, 1, 0)
              ELSE At("finish", pos.i, 0, 0)
    /\ UNCHANGED <<specs, specs0, merged_spec, merged_components, merge_error, runVars>>

\* spec.get("paths", {}).items() raises: spec or the value is not a mapping
MergePathsRaise ==
    /\ pos.phase = "paths"
    /\ specs[pos.i].root # "map" \/ specs[pos.i].paths.kind = "null"
    /\ Raise("AttributeError")
    /\ UNCHANGED <<specs, specs0, merged_spec, merged_components, runVars>>

\* one iteration of: for path, path_item in spec.get("paths", {}).items()
MergePathItem ==
    /\ pos.phase = "paths"
    /\ specs[pos.i].root = "map"
    /\ specs[pos.i].paths.kind = "map"
    /\ pos.j <= Len(specs[pos.i].paths.m)
    /\ LET e == specs[pos.i].paths.m[pos.j]
       IN merged_spec' =
            [merged_spec EXCEPT !.paths = Store(@, UniquePath(@, e.k), e.v)]
    /\ pos' = [pos EXCEPT !.j = @ + 1]
    /\ UNCHANGED <<specs, specs0, merged_components, merge_error, runVars>>

\* the paths of the spec are exhausted (or it has none)
MergePathsEnd ==
    /\ pos.phase = "paths"
    /\ specs[pos.i].root = "map"
    /\ \/ specs[pos.i].paths.kind = "absent"
       \/ /\ specs[pos.i].paths.kind = "map"
          /\ pos.j > Len(specs[pos.i].paths.m)
    /\ pos' = At("components", pos.i, 1, 0)
    /\ UNCHANGED <<specs, specs0, merged_spec, merged_components, merge_error, runVars>>

\* spec.get("components", {}).items() raises: the value is not a mapping
MergeComponentsRaise ==
    /\ pos.phase = "components"
    /\ specs[pos.i].components.kind = "null"
    /\ Raise("AttributeError")
    /\ UNCHANGED <<specs, specs0, merged_spec, merged_components, runVars>>

\* one iteration of: for comp_key, comp_val in components.items()
\* a category not seen before is stored by reference
MergeCategory ==
    /\ pos.phase = "components"
    /\ specs[pos.i].components.kind = "map"
    /\ pos.j <= Len(specs[pos.i].components.m)
    /\ LET comp_key == specs[pos.i].components.m[pos.j].k
       IN IF ~Has(merged_components, comp_key)
          THEN /\ merged_components' = Store(merged_components, comp_key, pos.i)
               /\ pos' = [pos EXCEPT !.j = @ + 1]
          ELSE /\ pos' = At("items", pos.i, pos.j, 1)
               /\ UNCHANGED merged_components
    /\ UNCHANGED <<specs, specs0, merged_spec, merge_error, runVars>>

\* one iteration of: for item_key, item_val in comp_val.items()
MergeComponentItem ==
    /\ pos.phase = "items"
    /\ pos.k <= Len(specs[pos.i].components.m[pos.j].v)
    /\ LET comp_key == specs[pos.i].components.m[pos.j].k
           e == specs[pos.i].components.m[pos.j].v[pos.k]
           ref == Lookup(merged_components, comp_key)
           unique_item_key == UniqueItemKey(Deref(specs, comp_key, ref), e.k)
       IN specs' = StoreThrough(specs, ref, comp_key, unique_item_key, e.v)
    /\ pos' = [pos EXCEPT !.k = @ + 1]
    /\ UNCHANGED <<specs0, merged_spec, merged_components, merge_error, runVars>>

\* the entries of the category are exhausted
MergeItemsEnd ==
    /\ pos.phase = "items"
    /\ pos.k > Len(specs[pos.i].components.m[pos.j].v)
    /\ pos' = At("components", pos.i, pos.j + 1, 0)
    /\ UNCHANGED <<specs, specs0, merged_spec, merged_components, merge_error, runVars>>

\* the categories of the spec are exhausted (or it has none)
MergeComponentsEnd ==
    /\ pos.phase = "components"
    /\ \/ specs[pos.i].components.kind = "absent"
       \/ /\ specs[pos.i].components.kind = "map"
          /\ pos.j > Len(specs[pos.i].components.m)
    /\ pos' = At("specs", pos.i, 0, 0)
    /\ UNCHANGED <<specs, specs0, merged_spec, merged_components, merge_error, runVars>>

\* if merged_components: merged_spec["components"] = merged_components; return
MergeReturn ==
    /\ pos.phase = "finish"
    /\ merged_spec' = IF merged_components # <<>>
                      THEN [merged_spec EXCEPT !.components = Mapping(merged_components)]
                      ELSE merged_spec
    /\ pos' = [pos EXCEPT !.phase = "returned"]
    /\ UNCHANGED <<specs, specs0, merged_components, merge_error, runVars>>

MergeNext ==
    \/ MergeBegin
    \/ MergeNextSpec
    \/ MergePathsRaise
    \/ MergePathItem
    \/ MergePathsEnd
    \/ MergeComponentsRaise
    \/ MergeCategory
    \/ MergeComponentItem
    \/ MergeItemsEnd
    \/ MergeComponentsEnd
    \/ MergeReturn

(***************************************************************************)
(* Files and yaml.  A file is absent, holds bytes yaml cannot parse, or    *)
(* holds a document.  yaml.safe_dump writes every mapping with its keys    *)
(* sorted, so a document read back has its entries in string order.        *)
(***************************************************************************)
\* the characters of the keys, in code point order
Alphabet == "-/0123456789ABCDEFGHIJKLMNOPQRSTUVWXYZabcdefghijklmnopqrstuvwxyz"

CharRank(c) == CHOOSE n \in 1..Len(Alphabet) : SubSeq(Alphabet, n, n) = c

RECURSIVE StrLess(_, _)
\* a < b on Python strings
StrLess(a, b) ==
    IF b = "" THEN FALSE
    ELSE IF a = "" THEN TRUE
    ELSE IF SubSeq(a, 1, 1) = SubSeq(b, 1, 1)
         THEN StrLess(SubSeq(a, 2, Len(a)), SubSeq(b, 2, Len(b)))
         ELSE CharRank(SubSeq(a, 1, 1)) < CharRank(SubSeq(b, 1, 1))

\* the entries of a mapping in the order safe_dump writes them
SortByKey(d) ==
    [n \in DOMAIN d |->
        CHOOSE e \in {d[x] : x \in DOMAIN d} :
            Cardinality({x \in DOMAIN d : StrLess(d[x].k, e.k)}) = n - 1]

SortSection(s) == IF s.kind = "map" THEN Mapping(SortByKey(s.m)) ELSE s

\* yaml.safe_load of what yaml.safe_dump wrote
Dumped(doc) ==
    IF doc.root # "map" THEN doc
    ELSE [doc EXCEPT
            !.paths = SortSection(@),
            !.components =
                IF @.kind = "map"
                THEN Mapping(SortByKey(
                        [x \in DOMAIN @.m |-> [k |-> @.m[x].k, v |-> SortByKey(@.m[x].v)]]))
                ELSE @]

AbsentFile == [kind |-> "absent", doc |-> NullDoc]
GarbageFile == [kind |-> "garbage", doc |-> NullDoc]
DocFile(doc) == [kind |-> "doc", doc |-> doc]
\* what a previous run left at combined_schema_file_path
StaleCombined == [kind |-> "stale", doc |-> NullDoc]
Written(doc) == [kind |-> "written", doc |-> doc]

Logo == "../../../_static/images/xbe_static_docs/logo.png"

NoPath == "<none>"
CombinedPath == "combined.yaml"

Dests == {"d1.yaml", "d2.yaml"}

\* what the server of a url may answer with
RemoteShapes ==
    {Shape("3.0.0", Info("A"), Mapping(<<"/a-1", "/a">>),
           Mapping(<<Cat("schemas", <<"Foo">>)>>)),
     Shape("3.1.0", NullInfo, Mapping(<<"/a">>), AbsentKey),
     Shape(Absent, NoInfo, Mapping(<<"/a">>), NullValue)}

RemoteFiles(url) ==
    {GarbageFile, DocFile(NullDoc)} \cup {DocFile(MakeSpec(s, url)) : s \in RemoteShapes}

\* a destination file left by an earlier run
StaleFile == DocFile(MakeSpec(BaseShape, 0))

FetchOutcomes == {"ok", "Timeout", "HTTPError", "RequestException", "Exception"}

SourceLists ==
    {[i \in 1..n |-> [url |-> i, dest |-> f[i]]] :
        n \in 0..MaxSources, f \in [1..MaxSources -> Dests]}

(***************************************************************************)
(* setup_openapi                                                           *)
(***************************************************************************)
\* the next iteration of: for schema in self.schema_info_list
NextSchema ==
    /\ run_pc' = "download"
    /\ idx' = idx + 1

\* self.download_file(schema.url, schema.dest): every exception is caught and
\* printed, so the caller sees no difference between success and failure
DownloadFile ==
    /\ run_pc = "download"
    /\ idx <= Len(schema_info_list)
    /\ \E outcome \in FetchOutcomes :
         IF outcome = "ok"
         THEN /\ \E content \in RemoteFiles(schema_info_list[idx].url) :
                    fs' = [fs EXCEPT ![schema_info_list[idx].dest] = content]
              /\ fetch_status' = [fetch_status EXCEPT ![idx] = "ok"]
         ELSE /\ fs' = fs
              /\ fetch_status' = [fetch_status EXCEPT ![idx] = "failed"]
    /\ IF openapi_use_xbe_workarounds
       THEN run_pc' = "workarounds" /\ idx' = idx
       ELSE NextSchema
    /\ UNCHANGED <<configVars, combined_file, patched, specs, specs0, merged_spec,
                   merged_components, pos, merge_error>>

\* the body of the try block of _apply_xbe_workarounds raises
PatchFails(file) ==
    \/ file.kind # "doc"
    \/ /\ file.doc.root = "map"
       /\ file.doc.info.kind = "null"

\* the file _apply_xbe_workarounds writes back
PatchedFile(file) ==
    IF file.doc.root = "map" /\ file.doc.info.kind = "map"
    THEN DocFile(Dumped([file.doc EXCEPT !.info.x_logo = Logo]))
    ELSE DocFile(Dumped(file.doc))

\* self._apply_xbe_workarounds(schema)
ApplyXbeWorkarounds ==
    /\ run_pc = "workarounds"
    /\ patched' = [patched EXCEPT ![idx] = TRUE]
    /\ LET dest == schema_info_list[idx].dest
       IN IF PatchFails(fs[dest])
          THEN /\ fs' = fs
               /\ IF openapi_stop_build_on_error
                  THEN run_pc' = "aborted" /\ idx' = idx
                  ELSE NextSchema
          ELSE /\ fs' = [fs EXCEPT ![dest] = PatchedFile(fs[dest])]
               /\ NextSchema
    /\ UNCHANGED <<configVars, combined_file, fetch_status, specs, specs0, merged_spec,
                   merged_components, pos, merge_error>>

\* after the loop: if self.combined_schema_file_path: self._combine_schemas()
SetupAfterLoop ==
    /\ run_pc = "download"
    /\ idx > Len(schema_info_list)
    /\ run_pc' = IF combined_schema_file_path # NoPath THEN "combine" ELSE "done"
    /\ UNCHANGED <<configVars, fs, combined_file, idx, fetch_status, patched, specs,
                   specs0, merged_spec, merged_components, pos, merge_error>>

\* open(schema.dest) or yaml.safe_load raises
ReadFails(file) == file.kind # "doc"

\* the list specs after the reading loop of _combine_schemas
ReadSpecs ==
    LET ok == SelectSeq([i \in DOMAIN schema_info_list |-> i],
                        LAMBDA i : ~ReadFails(fs[schema_info_list[i].dest]))
    IN [x \in DOMAIN ok |-> fs[schema_info_list[ok[x]].dest].doc]

\* _combine_schemas up to the call of merge_openapi_specs
CombineRead ==
    /\ run_pc = "combine"
    /\ IF /\ openapi_stop_build_on_error
          /\ \E i \in DOMAIN schema_info_list : ReadFails(fs[schema_info_list[i].dest])
       THEN /\ run_pc' = "aborted"
            /\ UNCHANGED <<specs, specs0, merged_spec, merged_components, pos,
                           merge_error>>
       ELSE /\ run_pc' = "merging"
            /\ specs' = ReadSpecs
            /\ specs0' = ReadSpecs
            /\ merged_spec' = NoMergedSpec
            /\ merged_components' = <<>>
            /\ pos' = At("call", 0, 0, 0)
            /\ merge_error' = "none"
    /\ UNCHANGED <<configVars, fs, combined_file, idx, fetch_status, patched>>

\* a plausible slip: the file is written whether or not the merge raised
CombineWritesAlways(phase) == phase \in {"returned", "raised"}

\* the statements after merge_openapi_specs in the try block run only if it returned
CombineWrites(phase) == phase = "returned"

\* the document yaml.safe_dump(merged_spec, f) leaves in the file
MergedDocument ==
    Dumped([root |-> "map",
            openapi |-> merged_spec.openapi,
            info |-> merged_spec.info,
            paths |-> Mapping(merged_spec.paths),
            components |-> IF merged_spec.components.kind = "map"
                           THEN Mapping(Resolved(specs, merged_spec.components.m))
                           ELSE AbsentKey])

\* _combine_schemas after merge_openapi_specs returned: mkdir, open and dump
WriteCombined ==
    /\ run_pc = "merging"
    /\ CombineWrites(pos.phase)
    /\ \E io_ok \in BOOLEAN :
         IF io_ok
         THEN /\ combined_file' = Written(MergedDocument)
              /\ run_pc' = "done"
         ELSE /\ combined_file' = combined_file
              /\ run_pc' = IF openapi_stop_build_on_error THEN "aborted" ELSE "done"
    /\ UNCHANGED <<configVars, fs, idx, fetch_status, patched, specs, specs0,
                   merged_spec, merged_components, pos, merge_error>>

\* _combine_schemas when merge_openapi_specs raised: log, and raise if fail-fast
CombineMergeFailed ==
    /\ run_pc = "merging"
    /\ pos.phase = "raised"
    /\ run_pc' = IF openapi_stop_build_on_error THEN "aborted" ELSE "done"
    /\ UNCHANGED <<configVars, fs, combined_file, idx, fetch_status, patched, specs,
                   specs0, merged_spec, merged_components, pos, merge_error>>

(***************************************************************************)
(* Specifications.                                                         *)
(***************************************************************************)
\* a run of setup_openapi from construction
Init ==
    /\ schema_info_list \in SourceLists
    /\ openapi_use_xbe_workarounds \in BOOLEAN
    /\ openapi_stop_build_on_error \in BOOLEAN
    /\ combined_schema_file_path \in {NoPath, CombinedPath}
    /\ fs \in [Dests -> {AbsentFile, StaleFile}]
    /\ combined_file \in {AbsentFile, StaleCombined}
    /\ run_pc = "download"
    /\ idx = 1
    /\ fetch_status = [i \in DOMAIN schema_info_list |-> "none"]
    /\ patched = [i \in DOMAIN schema_info_list |-> FALSE]
    /\ specs = <<>>
    /\ specs0 = <<>>
    /\ merged_spec = NoMergedSpec
    /\ merged_components = <<>>
    /\ pos = Idle
    /\ merge_error = "none"

Next ==
    \/ DownloadFile
    \/ ApplyXbeWorkarounds
    \/ SetupAfterLoop
    \/ CombineRead
    \/ MergeNext
    \/ WriteCombined
    \/ CombineMergeFailed

Spec == Init /\ [][Next]_vars

\* the lists merge_openapi_specs is called with
SpecLists ==
    {[i \in 1..n |-> MakeSpec(f[i], i)] : n \in 0..MaxSpecs, f \in [1..MaxSpecs -> SpecPool]}

\* a direct call of the static method merge_openapi_specs
MergeInit ==
    /\ schema_info_list = <<>>
    /\ openapi_use_xbe_workarounds = FALSE
    /\ openapi_stop_build_on_error = FALSE
    /\ combined_schema_file_path = NoPath
    /\ fs = [d \in Dests |-> AbsentFile]
    /\ combined_file = AbsentFile
    /\ run_pc = "call"
    /\ idx = 0
    /\ fetch_status = <<>>
    /\ patched = <<>>
    /\ specs \in SpecLists
    /\ specs0 = specs
    /\ merged_spec = NoMergedSpec
    /\ merged_components = <<>>
    /\ pos = At("call", 0, 0, 0)
    /\ merge_error = "none"

MergeSpec == MergeInit /\ [][MergeNext]_vars
(***************************************************************************)
(* Properties of setup_openapi, checked under Spec.                        *)
(***************************************************************************)
Terminal == run_pc \in {"done", "aborted"}

MergeCalled == pos.phase # "idle"

\* C1: with openapi_stop_build_on_error set, a failed download of a schema ends
\* the run: no later schema is downloaded or patched, merge_openapi_specs is not
\* called and the combined file is not written.
C1_FailFastStopsAtFetchFailure ==
    openapi_stop_build_on_error =>
        \A i \in DOMAIN fetch_status :
            fetch_status[i] = "failed" =>
                /\ \A j \in DOMAIN fetch_status :
                        j > i => fetch_status[j] = "none" /\ ~patched[j]
                /\ ~MergeCalled
                /\ combined_file.kind # "written"

\* C7: _apply_xbe_workarounds is called for a schema only with the workaround
\* flag set and only after the download of that schema succeeded in this run.
C7_PatchOnlyAfterSuccessfulFetch ==
    \A i \in DOMAIN patched :
        patched[i] => openapi_use_xbe_workarounds /\ fetch_status[i] = "ok"

DuplicateDests ==
    \E i, j \in DOMAIN schema_info_list :
        i # j /\ schema_info_list[i].dest = schema_info_list[j].dest

\* C8: with openapi_stop_build_on_error set and two schemas sharing a
\* destination, nothing is downloaded, so no downloaded file is overwritten by
\* the download of another schema.
C8_DuplicateDestinationAborts ==
    openapi_stop_build_on_error =>
        /\ DuplicateDests => \A i \in DOMAIN fetch_status : fetch_status[i] = "none"
        /\ \A i, j \in DOMAIN schema_info_list :
                (i < j /\ schema_info_list[i].dest = schema_info_list[j].dest)
                    => ~(fetch_status[i] = "ok" /\ fetch_status[j] = "ok")

\* C9: merge_openapi_specs raises ValueError on an empty list, and a run with a
\* combined path whose reading loop collected no spec never writes the combined
\* file; such a run ends aborted exactly when openapi_stop_build_on_error is set.
C9_EmptyInputWritesNothing ==
    /\ (pos.phase \notin {"idle", "call"} /\ specs0 = <<>>)
            => pos.phase = "raised" /\ merge_error = "ValueError"
    /\ (Terminal /\ combined_schema_file_path # NoPath /\ specs0 = <<>>)
            => /\ combined_file.kind # "written"
               /\ (run_pc = "aborted") = openapi_stop_build_on_error

\* C9 witness: a tolerant run over at least one schema read nothing, called the
\* merge with the empty list and finished without writing
C9_Witness ==
    /\ run_pc = "done"
    /\ combined_schema_file_path # NoPath
    /\ Len(schema_info_list) >= 1
    /\ specs0 = <<>>
    /\ pos.phase = "raised"
    /\ merge_error = "ValueError"
    /\ combined_file.kind # "written"

(***************************************************************************)
(* Properties of merge_openapi_specs, checked under MergeSpec.             *)
(***************************************************************************)
Returned == pos.phase = "returned"

SectionLen(s) == IF s.kind = "map" THEN Len(s.m) ELSE 0

CategoryLen(spec, cat) ==
    IF spec.components.kind = "map" /\ Has(spec.components.m, cat)
    THEN Len(Lookup(spec.components.m, cat))
    ELSE 0

RECURSIVE SumPaths(_)
SumPaths(sp) ==
    IF sp = <<>> THEN 0 ELSE SectionLen(sp[1].paths) + SumPaths(Tail(sp))

RECURSIVE SumCategory(_, _)
SumCategory(sp, cat) ==
    IF sp = <<>> THEN 0 ELSE CategoryLen(sp[1], cat) + SumCategory(Tail(sp), cat)

AllCategories ==
    UNION {Keys(specs0[i].components.m) : i \in DOMAIN specs0}

MergedCategory(cat) ==
    IF Has(merged_components, cat)
    THEN Deref(specs, cat, Lookup(merged_components, cat))
    ELSE <<>>

Values(d) == {d[n].v : n \in DOMAIN d}

\* C2: when merge_openapi_specs returns, the merged paths have as many entries
\* as all inputs together, every merged category has as many entries as that
\* category has over all inputs, and every input entry is in the result.
C2_NoLoss ==
    Returned =>
        /\ Len(merged_spec.paths) = SumPaths(specs0)
        /\ \A cat \in AllCategories :
                Len(MergedCategory(cat)) = SumCategory(specs0, cat)
        /\ \A i \in DOMAIN specs0 :
                /\ \A n \in DOMAIN specs0[i].paths.m :
                        specs0[i].paths.m[n].v \in Values(merged_spec.paths)
                /\ \A c \in DOMAIN specs0[i].components.m :
                        \A n \in DOMAIN specs0[i].components.m[c].v :
                            specs0[i].components.m[c].v[n].v
                                \in Values(MergedCategory(specs0[i].components.m[c].k))
        /\ merged_spec.components =
                IF AllCategories = {} THEN AbsentKey ELSE Mapping(merged_components)

\* C2 witness: three specs were merged with renamings in paths and in a category
C2_Witness ==
    /\ Returned
    /\ Len(specs0) = 3
    /\ Has(merged_spec.paths, "/a-1-1")
    /\ Has(MergedCategory("schemas"), "Foo-2")
    /\ Has(MergedCategory("responses"), "Foo")

\* the smallest k >= 1 with name-k unused
SmallestFree(used, name) ==
    CHOOSE k \in 1..(Len(used) + 1) :
        /\ ~Has(used, Suffixed(name, k))
        /\ \A j \in 1..(k - 1) : Has(used, Suffixed(name, j))

ExpectedKey(used, name) ==
    IF Has(used, name) THEN Suffixed(name, SmallestFree(used, name)) ELSE name

PathStep ==
    /\ pos.phase = "paths"
    /\ pos'.phase = "paths"
    /\ pos'.j = pos.j + 1

PathStepAsClaimed ==
    LET e == specs[pos.i].paths.m[pos.j]
    IN /\ merged_spec'.paths =
            Append(merged_spec.paths,
                   [k |-> ExpectedKey(merged_spec.paths, e.k), v |-> e.v])
       /\ pos'.i = pos.i

AllDefine(keys) ==
    \A i \in DOMAIN specs0 : specs0[i].paths = Mapping(Entries(i, keys))

PathExamples ==
    (Returned /\ AllDefine(<<"/a">>)) =>
        merged_spec.paths =
            [i \in DOMAIN specs0 |->
                [k |-> IF i = 1 THEN "/a" ELSE Suffixed("/a", i - 1), v |-> Item(i, "/a")]]

\* C3: every path item is stored under its own key if that key is unused in the
\* result, otherwise under <path>-k for the smallest unused k >= 1, specs being
\* taken in input order; specs that all define only /a give /a, /a-1, /a-2.
C3_PathRenaming == [][PathStep => PathStepAsClaimed]_vars /\ []PathExamples

\* C3 witness: three specs defining /a were merged into /a, /a-1 and /a-2
C3_Witness ==
    /\ Returned
    /\ Len(specs0) = 3
    /\ AllDefine(<<"/a">>)
    /\ Keys(merged_spec.paths) = {"/a", "/a-1", "/a-2"}
    /\ Lookup(merged_spec.paths, "/a") = Item(1, "/a")

FirstSeenStep ==
    /\ pos.phase = "components"
    /\ pos'.phase = "components"
    /\ pos'.j = pos.j + 1

FirstSeenStepAsClaimed ==
    LET c == specs[pos.i].components.m[pos.j]
    IN /\ ~Has(merged_components, c.k)
       /\ Keys(merged_components') = Keys(merged_components) \cup {c.k}
       /\ Deref(specs', c.k, Lookup(merged_components', c.k)) = c.v
       /\ \A i \in DOMAIN specs : i < pos.i => ~Has(specs0[i].components.m, c.k)

ItemStep ==
    /\ pos.phase = "items"
    /\ pos'.phase = "items"
    /\ pos'.k = pos.k + 1

ItemStepAsClaimed ==
    LET c == specs[pos.i].components.m[pos.j]
        e == c.v[pos.k]
        used == MergedCategory(c.k)
    IN /\ Deref(specs', c.k, Lookup(merged_components', c.k)) =
            Append(used, [k |-> ExpectedKey(used, e.k), v |-> e.v])
       /\ \E i \in DOMAIN specs : i < pos.i /\ Has(specs0[i].components.m, c.k)

OnlySchemasFoo ==
    \A i \in DOMAIN specs0 :
        specs0[i].components = Mapping(Categories(i, <<Cat("schemas", <<"Foo">>)>>))

ComponentExample ==
    (Returned /\ Len(specs0) = 2 /\ OnlySchemasFoo) =>
        Resolved(specs, merged_spec.components.m) =
            <<[k |-> "schemas",
               v |-> <<[k |-> "Foo", v |-> Item(1, "Foo")],
                       [k |-> "Foo-1", v |-> Item(2, "Foo")]>>]>>

\* C4: the first spec contributing a category has its mapping taken as it is;
\* every entry of a later spec for that category is stored under its own name if
\* unused, otherwise under <name>-k for the smallest unused k >= 1; merging
\* schemas {Foo: 1} and {Foo: 2} gives exactly {Foo: 1, Foo-1: 2}.
C4_ComponentRenaming ==
    /\ [][FirstSeenStep => FirstSeenStepAsClaimed]_vars
    /\ [][ItemStep => ItemStepAsClaimed]_vars
    /\ []ComponentExample

\* C4 witness: schemas {Foo} twice were merged into Foo and Foo-1
C4_Witness ==
    /\ Returned
    /\ Len(specs0) = 2
    /\ OnlySchemasFoo
    /\ Lookup(MergedCategory("schemas"), "Foo-1") = Item(2, "Foo")

AfterBegin == pos.phase \in {"specs", "paths", "components", "items", "finish", "returned"}

\* C5: the merged openapi and info are those of the first spec (the defaults
\* "3.0.0" and {} where the first spec has no such key), whatever the later
\* specs hold.
C5_MetadataOfFirst ==
    AfterBegin =>
        /\ merged_spec.openapi =
                IF specs0[1].openapi = Absent THEN "3.0.0" ELSE specs0[1].openapi
        /\ merged_spec.info =
                IF specs0[1].info.kind = "absent" THEN EmptyInfo ELSE specs0[1].info

\* C5 witness: a later spec with other metadata was merged after the first
C5_Witness ==
    /\ Returned
    /\ Len(specs0) >= 2
    /\ specs0[1].openapi = "3.0.0"
    /\ specs0[1].info = Info("A")
    /\ specs0[Len(specs0)].openapi = "3.1.0"
    /\ specs0[Len(specs0)].info = Info("B")

\* C6: a spec whose paths or components value is not a mapping does not make
\* the merge of a non-empty list fail, and the entries of the other specs are
\* all merged.
C6_NonMappingSectionIgnored ==
    specs0 # <<>> =>
        /\ pos.phase # "raised"
        /\ Returned =>
                Len(merged_spec.paths) = SumPaths(specs0)

\* C10: merge_openapi_specs leaves every input spec as it was.
C10_InputsUnchanged == specs = specs0
====
